---- MODULE Spec2Model ----
(***************************************************************************)
(* Habit tracker: the persisted application state (habits, completion      *)
(* logs, settings), the HabitService and HabitLogService operations on it, *)
(* and the day-status aggregation getDayStatusMap.                         *)
(***************************************************************************)
EXTENDS Integers, Sequences, FiniteSets, TLC

VARIABLES stored, call, ui

vars == <<stored, call, ui>>

(***************************************************************************)
(* Bounds of the model.                                                    *)
(***************************************************************************)
MaxLogs == 2

\* The ids in use: generateId draws from them, callers pass them.
Ids == {"a", "b"}

\* new Date().getFullYear() of the session.
ThisYear == 2024

Names == {"Run"}
Colors == {"#ef4444", "#3b82f6"}
Timestamps == {"2024-01-01T08:00:00.000Z"}

\* "YYYY-MM-DD" strings, as sequences of characters.
D_2024_01_01 == <<"2", "0", "2", "4", "-", "0", "1", "-", "0", "1">>
D_2025_01_01 == <<"2", "0", "2", "5", "-", "0", "1", "-", "0", "1">>
Dates == {D_2024_01_01, D_2025_01_01}

Years == {2024, 2025}

(***************************************************************************)
(* Strings.                                                                *)
(***************************************************************************)
Digit(n) == CASE n = 0 -> "0" [] n = 1 -> "1" [] n = 2 -> "2" [] n = 3 -> "3"
              [] n = 4 -> "4" [] n = 5 -> "5" [] n = 6 -> "6" [] n = 7 -> "7"
              [] n = 8 -> "8" [] n = 9 -> "9"

RECURSIVE NumberToString(_)
NumberToString(n) ==
    IF n < 10 THEN <<Digit(n)>>
    ELSE NumberToString(n \div 10) \o <<Digit(n % 10)>>

startsWith(s, prefix) ==
    /\ Len(s) >= Len(prefix)
    /\ SubSeq(s, 1, Len(prefix)) = prefix

(***************************************************************************)
(* Array helpers of the JavaScript runtime.                                *)
(***************************************************************************)
includes(s, x) == \E i \in 1..Len(s) : s[i] = x

(***************************************************************************)
(* Storage: the item under 'habit-tracker-state', <<>> when absent.        *)
(***************************************************************************)
DEFAULT_SETTINGS == [currentYear |-> ThisYear, notificationsEnabled |-> "undefined"]

LogDefaultSettings == [currentYear |-> ThisYear, notificationsEnabled |-> "false"]

StorageGet == stored

\* HabitService.getState
getState ==
    IF StorageGet = <<>>
    THEN [habits |-> <<>>, logs |-> <<>>, settings |-> DEFAULT_SETTINGS]
    ELSE StorageGet[1]

\* HabitLogService.getState
logGetState ==
    IF StorageGet = <<>>
    THEN [habits |-> <<>>, logs |-> <<>>, settings |-> LogDefaultSettings]
    ELSE StorageGet[1]

\* StorageService.set that stores although setItem threw.
StorageSet_StoresAnyway(state, setItemThrows) == <<state>>

\* StorageService.set: the content of the storage after the call.  When
\* JSON.stringify or setItem throws, the catch logs the error and the
\* storage keeps what it held.
StorageSet(state, setItemThrows) ==
    IF setItemThrows THEN stored ELSE <<state>>

saveState(state, setItemThrows) == stored' = StorageSet(state, setItemThrows)

getHabits == getState.habits

getLogs == logGetState.logs

getSettings == getState.settings

(***************************************************************************)
(* HabitService: CRUD over the habits of the persisted state.  Each        *)
(* operator gives the state the call builds, whether it saves it, and the  *)
(* value it returns.                                                       *)
(***************************************************************************)
EmptyObject == [f \in {} |-> TRUE]

\* HabitReminder as HabitForm builds it when the reminder is switched on.
Reminders == {[enabled |-> TRUE, time |-> "08:00"]}

\* CreateHabitData as the callers build it: reminder is optional.
CreateHabitData ==
    [name : Names, color : Colors, mandatory : BOOLEAN]
    \cup [name : Names, color : Colors, mandatory : BOOLEAN, reminder : Reminders]

\* UpdateHabitData: every field is optional.
UpdateHabitData ==
    {EmptyObject}
    \cup {[name |-> v] : v \in Names}
    \cup {[color |-> v] : v \in Colors}
    \cup {[mandatory |-> v] : v \in BOOLEAN}

\* { ...a, ...b }
Spread(a, b) == b @@ a

\* habits.findIndex(h => h.id === id), 1-based; 0 stands for -1.
HabitIndex(habits, id) ==
    LET hits == {i \in DOMAIN habits : habits[i].id = id}
    IN IF hits = {} THEN 0 ELSE CHOOSE i \in hits : \A j \in hits : i <= j

HabitIds(habits) == {habits[i].id : i \in DOMAIN habits}

LogHabitIds(logs) == {logs[i].habitId : i \in DOMAIN logs}

\* generateId: an identifier nothing in the stored state refers to.
generateId == Ids \ (HabitIds(getState.habits) \cup LogHabitIds(getState.logs))

\* createHabit that puts the new habit at the head of the list.
createHabitOp_Unshift(state, id, data, now) ==
    LET newHabit == [id |-> id,
                     name |-> data.name,
                     color |-> data.color,
                     mandatory |-> data.mandatory,
                     createdAt |-> now]
    IN [state |-> [state EXCEPT !.habits = <<newHabit>> \o @],
        save |-> TRUE,
        ret |-> newHabit]

createHabitOp(state, id, data, now) ==
    LET newHabit == [id |-> id,
                     name |-> data.name,
                     color |-> data.color,
                     mandatory |-> data.mandatory,
                     createdAt |-> now]
    IN [state |-> [state EXCEPT !.habits = Append(@, newHabit)],
        save |-> TRUE,
        ret |-> newHabit]

\* updateHabit without the test of findIndex's -1: habits[-1] is assigned,
\* which is no element of the array, the state is saved and the merged
\* object returned.
updateHabitOp_NoIndexCheck(state, id, updates) ==
    LET habitIndex == HabitIndex(state.habits, id)
        merged == IF habitIndex = 0 THEN updates
                  ELSE Spread(state.habits[habitIndex], updates)
    IN [state |-> IF habitIndex = 0 THEN state
                  ELSE [state EXCEPT !.habits[habitIndex] = merged],
        save |-> TRUE,
        ret |-> <<merged>>]

\* updateHabit that removes the habit and pushes the merged one.
updateHabitOp_MoveToEnd(state, id, updates) ==
    LET habitIndex == HabitIndex(state.habits, id)
    IN IF habitIndex = 0
       THEN [state |-> state, save |-> FALSE, ret |-> <<>>]
       ELSE LET merged == Spread(state.habits[habitIndex], updates)
                others == SelectSeq(state.habits, LAMBDA h : h.id # id)
            IN [state |-> [state EXCEPT !.habits = Append(others, merged)],
                save |-> TRUE,
                ret |-> <<merged>>]

\* ret is <<>> for null and <<habit>> otherwise.
updateHabitOp(state, id, updates) ==
    LET habitIndex == HabitIndex(state.habits, id)
    IN IF habitIndex = 0
       THEN [state |-> state, save |-> FALSE, ret |-> <<>>]
       ELSE LET merged == Spread(state.habits[habitIndex], updates)
            IN [state |-> [state EXCEPT !.habits[habitIndex] = merged],
                save |-> TRUE,
                ret |-> <<merged>>]

\* deleteHabit without the cascade on the logs.
deleteHabitOp_KeepLogs(state, id) ==
    LET habits == SelectSeq(state.habits, LAMBDA h : h.id # id)
        next == [state EXCEPT !.habits = habits]
    IN IF Len(habits) = Len(state.habits)
       THEN [state |-> next, save |-> FALSE, ret |-> FALSE]
       ELSE [state |-> next, save |-> TRUE, ret |-> TRUE]

\* deleteHabit without the comparison of the lengths: it always saves and
\* returns true.
deleteHabitOp_NoLengthCheck(state, id) ==
    LET habits == SelectSeq(state.habits, LAMBDA h : h.id # id)
        logs == SelectSeq(state.logs, LAMBDA log : log.habitId # id)
    IN [state |-> [state EXCEPT !.habits = habits, !.logs = logs],
        save |-> TRUE,
        ret |-> TRUE]

deleteHabitOp(state, id) ==
    LET initialLength == Len(state.habits)
        habits == SelectSeq(state.habits, LAMBDA h : h.id # id)
        logs == SelectSeq(state.logs, LAMBDA log : log.habitId # id)
        next == [state EXCEPT !.habits = habits, !.logs = logs]
    IN IF Len(habits) = initialLength
       THEN [state |-> next, save |-> FALSE, ret |-> FALSE]
       ELSE [state |-> next, save |-> TRUE, ret |-> TRUE]

updateSettingsOp(state, updates) ==
    LET settings == Spread(state.settings, updates)
    IN [state |-> [state EXCEPT !.settings = settings],
        save |-> TRUE,
        ret |-> settings]

(***************************************************************************)
(* HabitLogService: the completion log.                                    *)
(***************************************************************************)
\* logs.findIndex(log => log.habitId === habitId && log.date === date),
\* 1-based; 0 stands for -1.
LogIndex(logs, habitId, date) ==
    LET hits == {i \in DOMAIN logs : logs[i].habitId = habitId /\ logs[i].date = date}
    IN IF hits = {} THEN 0 ELSE CHOOSE i \in hits : \A j \in hits : i <= j

isCompletedIn(logs, habitId, date) ==
    LET i == LogIndex(logs, habitId, date)
    IN IF i = 0 THEN FALSE ELSE logs[i].completed

isCompleted(habitId, date) == isCompletedIn(getLogs, habitId, date)

\* toggleCompletion that never finds the existing entry.
toggleCompletionOp_AlwaysPush(state, habitId, date) ==
    [state |-> [state EXCEPT !.logs =
                   Append(@, [habitId |-> habitId, date |-> date, completed |-> TRUE])],
     save |-> TRUE,
     ret |-> TRUE]

\* toggleCompletion that marks an existing entry completed instead of flipping it.
toggleCompletionOp_NoFlip(state, habitId, date) ==
    LET existingIndex == LogIndex(state.logs, habitId, date)
    IN IF existingIndex = 0
       THEN [state |-> [state EXCEPT !.logs =
                           Append(@, [habitId |-> habitId, date |-> date,
                                      completed |-> TRUE])],
             save |-> TRUE,
             ret |-> TRUE]
       ELSE [state |-> [state EXCEPT !.logs[existingIndex].completed = TRUE],
             save |-> TRUE,
             ret |-> TRUE]

\* toggleCompletion that returns the status read before the flip.
toggleCompletionOp_ReturnsOld(state, habitId, date) ==
    LET existingIndex == LogIndex(state.logs, habitId, date)
    IN IF existingIndex = 0
       THEN [state |-> [state EXCEPT !.logs =
                           Append(@, [habitId |-> habitId, date |-> date,
                                      completed |-> TRUE])],
             save |-> TRUE,
             ret |-> TRUE]
       ELSE [state |-> [state EXCEPT !.logs[existingIndex].completed =
                           ~state.logs[existingIndex].completed],
             save |-> TRUE,
             ret |-> state.logs[existingIndex].completed]

toggleCompletionOp(state, habitId, date) ==
    LET existingIndex == LogIndex(state.logs, habitId, date)
    IN IF existingIndex = 0
       THEN [state |-> [state EXCEPT !.logs =
                           Append(@, [habitId |-> habitId, date |-> date,
                                      completed |-> TRUE])],
             save |-> TRUE,
             ret |-> TRUE]
       ELSE LET newStatus == ~state.logs[existingIndex].completed
            IN [state |-> [state EXCEPT !.logs[existingIndex].completed = newStatus],
                save |-> TRUE,
                ret |-> newStatus]

\* setCompletion that never finds the existing entry.
setCompletionOp_AlwaysPush(state, habitId, date, completed) ==
    [state |-> [state EXCEPT !.logs =
                   Append(@, [habitId |-> habitId, date |-> date,
                              completed |-> completed])],
     save |-> TRUE]

setCompletionOp(state, habitId, date, completed) ==
    LET existingIndex == LogIndex(state.logs, habitId, date)
    IN IF existingIndex = 0
       THEN [state |-> [state EXCEPT !.logs =
                           Append(@, [habitId |-> habitId, date |-> date,
                                      completed |-> completed])],
             save |-> TRUE]
       ELSE [state |-> [state EXCEPT !.logs[existingIndex].completed = completed],
             save |-> TRUE]

\* getLogsForYear without the prefix test.
getLogsForYear_All(year) == getLogs

\* The filter of getLogsForYear on a list of log entries.
logsForYear(logs, year) ==
    LET yearPrefix == NumberToString(year) \o <<"-">>
    IN SelectSeq(logs, LAMBDA log : startsWith(log.date, yearPrefix))

getLogsForYear(year) == logsForYear(getLogs, year)

(***************************************************************************)
(* The day-status aggregation.  The habitFilter argument is optional:      *)
(* [defined |-> FALSE] stands for an omitted argument.  A JavaScript value *)
(* that may be true, false or undefined is one of the strings "true",      *)
(* "false", "undefined".  The Map returned is a function on its keys.      *)
(***************************************************************************)
NoFilter == [defined |-> FALSE, ids |-> <<>>]

FilterOf(ids) == [defined |-> TRUE, ids |-> ids]

\* habitFilter && habitFilter.length > 0
filterActive(habitFilter) ==
    IF ~habitFilter.defined THEN "undefined"
    ELSE IF Len(habitFilter.ids) > 0 THEN "true" ELSE "false"

\* The active habits without the restriction to the filter.
activeHabitsOf_All(habits, habitFilter) == habits

activeHabitsOf(habits, habitFilter) ==
    IF filterActive(habitFilter) = "true"
    THEN SelectSeq(habits, LAMBDA h : includes(habitFilter.ids, h.id))
    ELSE habits

activeLogsOf(logs, habitFilter) ==
    IF filterActive(habitFilter) = "true"
    THEN SelectSeq(logs, LAMBDA log : includes(habitFilter.ids, log.habitId))
    ELSE logs

\* The loop over the log entries of one date.
RECURSIVE countCompleted(_, _, _, _)
countCompleted(dateLogs, activeHabits, i, acc) ==
    IF i > Len(dateLogs) THEN acc
    ELSE LET log == dateLogs[i]
             found == HabitIndex(activeHabits, log.habitId)
         IN IF log.completed /\ found # 0
            THEN LET habit == activeHabits[found]
                 IN countCompleted(dateLogs, activeHabits, i + 1,
                      [completedColors |-> Append(acc.completedColors, habit.color),
                       mandatoryCompleted |->
                           acc.mandatoryCompleted + (IF habit.mandatory THEN 1 ELSE 0),
                       optionalCompleted |->
                           acc.optionalCompleted + (IF habit.mandatory THEN 0 ELSE 1)])
            ELSE countCompleted(dateLogs, activeHabits, i + 1, acc)

\* The loop without its test of the looked-up habit: a completed entry whose
\* habit is missing is counted as an optional completion.
RECURSIVE countCompleted_NoHabitCheck(_, _, _, _)
countCompleted_NoHabitCheck(dateLogs, activeHabits, i, acc) ==
    IF i > Len(dateLogs) THEN acc
    ELSE LET log == dateLogs[i]
             found == HabitIndex(activeHabits, log.habitId)
             mandatory == found # 0 /\ activeHabits[found].mandatory
         IN IF log.completed
            THEN countCompleted_NoHabitCheck(dateLogs, activeHabits, i + 1,
                      [completedColors |->
                           IF found # 0
                           THEN Append(acc.completedColors, activeHabits[found].color)
                           ELSE acc.completedColors,
                       mandatoryCompleted |->
                           acc.mandatoryCompleted + (IF mandatory THEN 1 ELSE 0),
                       optionalCompleted |->
                           acc.optionalCompleted + (IF mandatory THEN 0 ELSE 1)])
            ELSE countCompleted_NoHabitCheck(dateLogs, activeHabits, i + 1, acc)

countsOfDate_NoHabitCheck(activeLogs, activeHabits, date) ==
    countCompleted_NoHabitCheck(SelectSeq(activeLogs, LAMBDA log : log.date = date),
                                activeHabits, 1,
                                [completedColors |-> <<>>, mandatoryCompleted |-> 0,
                                 optionalCompleted |-> 0])

countsOfDate(activeLogs, activeHabits, date) ==
    countCompleted(SelectSeq(activeLogs, LAMBDA log : log.date = date), activeHabits, 1,
                   [completedColors |-> <<>>, mandatoryCompleted |-> 0,
                    optionalCompleted |-> 0])

\* Whether the loop body reaches one of its two statusMap.set calls.
\* Only the first statusMap.set: a date without completions and without
\* filter is dropped.
emitsDate_CompletedOnly(completedColors, isFilterActive) ==
    Len(completedColors) > 0 \/ isFilterActive = "true"

emitsDate(completedColors, isFilterActive) ==
    \/ Len(completedColors) > 0 \/ isFilterActive = "true"
    \/ isFilterActive # "true"

\* The flag set from the completions of the date instead of the filter.
isFilteredOf_FromColors(completedColors, isFilterActive) ==
    IF Len(completedColors) > 0 THEN "true" ELSE "false"

\* The isFiltered field of the two statusMap.set calls: the first writes
\* isFilterActive as it is (undefined when habitFilter was omitted), the
\* second writes false.
isFilteredOf(completedColors, isFilterActive) ==
    IF Len(completedColors) > 0 \/ isFilterActive = "true"
    THEN isFilterActive ELSE "false"

\* The variant of the service without the habitFilter parameter.
getDayStatusMapAll(year, habits) ==
    LET logs == getLogsForYear(year)
        logsByDate == {logs[i].date : i \in DOMAIN logs}
    IN [date \in logsByDate |->
          LET c == countsOfDate(logs, habits, date)
          IN [date |-> date,
              mandatoryCompleted |-> c.mandatoryCompleted,
              mandatoryTotal |-> Len(SelectSeq(habits, LAMBDA h : h.mandatory)),
              optionalCompleted |-> c.optionalCompleted,
              optionalTotal |-> Len(SelectSeq(habits, LAMBDA h : ~h.mandatory)),
              completedColors |-> c.completedColors]]

\* getDayStatusMap that reads habitFilter for the isFiltered flag only.
getDayStatusMap_IgnoresFilter(year, habits, habitFilter) ==
    LET map == getDayStatusMapAll(year, habits)
    IN [date \in DOMAIN map |->
          map[date] @@ [isFiltered |-> filterActive(habitFilter)]]

\* getDayStatusMap after its call of getLogsForYear: the map built from the
\* log entries of the year.
dayStatusMapOf(logs, habits, habitFilter) ==
    LET activeHabits == activeHabitsOf(habits, habitFilter)
        activeLogs == activeLogsOf(logs, habitFilter)
        logsByDate == {activeLogs[i].date : i \in DOMAIN activeLogs}
        isFilterActive == filterActive(habitFilter)
        counts(date) == countsOfDate(activeLogs, activeHabits, date)
        keys == {date \in logsByDate :
                    emitsDate(counts(date).completedColors, isFilterActive)}
    IN [date \in keys |->
          LET c == counts(date)
          IN [date |-> date,
              mandatoryCompleted |-> c.mandatoryCompleted,
              mandatoryTotal |-> Len(SelectSeq(activeHabits, LAMBDA h : h.mandatory)),
              optionalCompleted |-> c.optionalCompleted,
              optionalTotal |-> Len(SelectSeq(activeHabits, LAMBDA h : ~h.mandatory)),
              completedColors |-> c.completedColors,
              isFiltered |-> isFilteredOf(c.completedColors, isFilterActive)]]

getDayStatusMap(year, habits, habitFilter) ==
    dayStatusMapOf(getLogsForYear(year), habits, habitFilter)

\* The habitFilter arguments: omitted, or a list of ids without repetition.
HabitFilters ==
    {NoFilter}
    \cup {FilterOf(<<>>)}
    \cup {FilterOf(<<a>>) : a \in Ids}
    \cup {FilterOf(<<"a", "b">>)}

(***************************************************************************)
(* The calls, made one after the other on a storage whose writes succeed.  *)
(* call records the most recent call: its arguments and what it returned.  *)
(* For deleteHabit, removed is the number of log entries the call dropped. *)
(* For the completion mutators, existed, index, length and before are the  *)
(* presence and position of the entry, the length of the log and           *)
(* isCompleted before the call, repeat tells that the previous call was    *)
(* the same call with the same arguments, and origin is isCompleted before *)
(* that previous call.                                                     *)
(***************************************************************************)
\* No HabitProvider is mounted.
Unmounted == [mounted |-> FALSE]

Init ==
    /\ stored = <<>>
    /\ call = [op |-> "none"]
    /\ ui = Unmounted

Persist(result, setItemThrows) ==
    IF result.save THEN saveState(result.state, setItemThrows) ELSE UNCHANGED stored

createHabit ==
    \E data \in CreateHabitData, id \in generateId, now \in Timestamps :
        LET r == createHabitOp(getState, id, data, now)
        IN /\ Persist(r, FALSE)
           /\ UNCHANGED ui
           /\ call' = [op |-> "createHabit", data |-> data, ret |-> r.ret]

updateHabit ==
    \E id \in Ids, updates \in UpdateHabitData :
        LET r == updateHabitOp(getState, id, updates)
        IN /\ Persist(r, FALSE)
           /\ UNCHANGED ui
           /\ call' = [op |-> "updateHabit", id |-> id, updates |-> updates,
                       ret |-> r.ret]

deleteHabit ==
    \E id \in Ids :
        LET r == deleteHabitOp(getState, id)
        IN /\ Persist(r, FALSE)
           /\ UNCHANGED ui
           /\ call' = [op |-> "deleteHabit", id |-> id, ret |-> r.ret,
                       removed |-> Len(getState.logs) - Len(r.state.logs)]

\* Whether the call repeats the previous one, arguments included.
Repeats(op, habitId, date, completed) ==
    /\ call.op = op
    /\ call.habitId = habitId
    /\ call.date = date
    /\ call.completed = completed

toggleCompletion ==
    \E habitId \in Ids, date \in Dates :
        LET r == toggleCompletionOp(logGetState, habitId, date)
        IN /\ Len(r.state.logs) <= MaxLogs
           /\ Persist(r, FALSE)
           /\ UNCHANGED ui
           /\ call' = [op |-> "toggleCompletion", habitId |-> habitId, date |-> date,
                       completed |-> TRUE,
                       ret |-> r.ret,
                       existed |-> LogIndex(getLogs, habitId, date) # 0,
                       index |-> LogIndex(getLogs, habitId, date),
                       length |-> Len(getLogs),
                       before |-> isCompleted(habitId, date),
                       repeat |-> Repeats("toggleCompletion", habitId, date, TRUE),
                       origin |-> IF Repeats("toggleCompletion", habitId, date, TRUE)
                                  THEN call.before
                                  ELSE isCompleted(habitId, date)]

setCompletion ==
    \E habitId \in Ids, date \in Dates, completed \in BOOLEAN :
        LET r == setCompletionOp(logGetState, habitId, date, completed)
        IN /\ Len(r.state.logs) <= MaxLogs
           /\ Persist(r, FALSE)
           /\ UNCHANGED ui
           /\ call' = [op |-> "setCompletion", habitId |-> habitId, date |-> date,
                       completed |-> completed,
                       existed |-> LogIndex(getLogs, habitId, date) # 0,
                       index |-> LogIndex(getLogs, habitId, date),
                       length |-> Len(getLogs),
                       before |-> isCompleted(habitId, date),
                       repeat |-> Repeats("setCompletion", habitId, date, completed)]

\* getDayStatusMap called with the stored habits, as HabitProvider calls it.
queryDayStatusMap ==
    \E year \in Years, habitFilter \in HabitFilters :
        /\ call' = [op |-> "getDayStatusMap", year |-> year, habits |-> getHabits,
                    habitFilter |-> habitFilter,
                    ret |-> getDayStatusMap(year, getHabits, habitFilter)]
        /\ UNCHANGED <<stored, ui>>

queryDayStatusMapAll ==
    \E year \in Years :
        /\ call' = [op |-> "getDayStatusMapAll", year |-> year, habits |-> getHabits,
                    ret |-> getDayStatusMapAll(year, getHabits)]
        /\ UNCHANGED <<stored, ui>>

Next ==
    \/ createHabit
    \/ updateHabit
    \/ deleteHabit
    \/ toggleCompletion
    \/ setCompletion
    \/ queryDayStatusMap
    \/ queryDayStatusMapAll

Spec == Init /\ [][Next]_vars

(***************************************************************************)
(* DayCell: the rendering of one day from its DayStatus.                   *)
(***************************************************************************)
MaxTotal == 2

\* JavaScript truthiness of the tri-valued isFiltered field.
Truthy(v) == v = "true"

\* The status prop: absent (<<>>) or one DayStatus as getDayStatusMap builds
\* it for at most MaxTotal mandatory and MaxTotal optional active habits.
DayStatuses ==
    UNION {
        {[date |-> date,
          mandatoryCompleted |-> mc, mandatoryTotal |-> mt,
          optionalCompleted |-> oc, optionalTotal |-> ot,
          completedColors |-> colors, isFiltered |-> flag] :
            date \in {D_2024_01_01},
            colors \in [1..(mc + oc) -> Colors],
            flag \in {f \in {"true", "false", "undefined"} :
                         f = "undefined" => mc + oc > 0}} :
        mt \in 0..MaxTotal, ot \in 0..MaxTotal, mc \in 0..MaxTotal, oc \in 0..MaxTotal}

WellFormed(status) ==
    /\ status.mandatoryCompleted <= status.mandatoryTotal
    /\ status.optionalCompleted <= status.optionalTotal

StatusProps == {<<>>} \cup {<<status>> : status \in {x \in DayStatuses : WellFormed(x)}}

Keyword(value) == [css |-> "keyword", arg |-> value]
CssVar(name) == [css |-> "var", arg |-> name]
CssColor(color) == [css |-> "color", arg |-> color]

\* The stops of the conic gradient: colour i of total spans from
\* (i / total) * 100 to ((i + 1) / total) * 100 percent, kept as fractions.
gradientStops(colors) ==
    [i \in DOMAIN colors |->
        [color |-> colors[i],
         startPercent |-> <<(i - 1) * 100, Len(colors)>>,
         endPercent |-> <<i * 100, Len(colors)>>]]

\* allMandatoryDone without the test that a mandatory habit exists.
allMandatoryDone_NoTotalCheck(status) ==
    status.mandatoryCompleted = status.mandatoryTotal

allMandatoryDone(status) ==
    status.mandatoryTotal > 0 /\ status.mandatoryCompleted = status.mandatoryTotal

allOptionalDone(status) ==
    status.optionalTotal > 0 /\ status.optionalCompleted = status.optionalTotal

someOptionalDone(status) == status.optionalCompleted > 0

dotStyle(statusProp, isFuture) ==
    IF isFuture
    THEN [background |-> Keyword("transparent"),
          border |-> "1px solid var(--color-border)"]
    ELSE IF statusProp = <<>>
    THEN [background |-> CssVar("--color-bg-tertiary")]
    ELSE LET status == statusProp[1]
             colors == status.completedColors
             totalHabits == status.mandatoryTotal + status.optionalTotal
             completedHabits == status.mandatoryCompleted + status.optionalCompleted
         IN IF Truthy(status.isFiltered) /\ Len(colors) > 0
            THEN IF Len(colors) = 1
                 THEN [background |-> CssColor(colors[1])]
                 ELSE [background |->
                          [css |-> "conic-gradient", arg |-> gradientStops(colors)]]
            ELSE IF totalHabits > 0 /\ completedHabits = totalHabits
            THEN [background |-> CssVar("--color-success")]
            ELSE IF allMandatoryDone(status) /\ someOptionalDone(status)
                    /\ ~allOptionalDone(status)
            THEN [background |-> CssVar("--color-warning")]
            ELSE IF allMandatoryDone(status)
            THEN [background |-> CssVar("--color-primary")]
            ELSE IF totalHabits > 0 /\ completedHabits = 0
            THEN [background |-> CssVar("--color-error")]
            ELSE IF completedHabits > 0
            THEN [background |-> CssVar("--color-warning")]
            ELSE [background |-> CssVar("--color-bg-tertiary")]

hasMissingMandatory(statusProp, isFuture) ==
    /\ statusProp # <<>>
    /\ statusProp[1].mandatoryTotal > 0
    /\ statusProp[1].mandatoryCompleted < statusProp[1].mandatoryTotal
    /\ ~isFuture

\* The celebration flag without the test that a mandatory habit exists.
allMandatoryComplete_NoTotalCheck(statusProp, isFuture) ==
    /\ statusProp # <<>>
    /\ statusProp[1].mandatoryCompleted = statusProp[1].mandatoryTotal
    /\ ~Truthy(statusProp[1].isFiltered)
    /\ ~isFuture

allMandatoryComplete(statusProp, isFuture) ==
    /\ statusProp # <<>>
    /\ statusProp[1].mandatoryTotal > 0
    /\ statusProp[1].mandatoryCompleted = statusProp[1].mandatoryTotal
    /\ ~Truthy(statusProp[1].isFiltered)
    /\ ~isFuture

\* The element DayCell returns: its class names, its style, and the
\* children and attributes that depend on the props.
DayCell(statusProp, isToday, isFuture) ==
    [className |->
         {"day-cell"}
         \cup (IF isToday THEN {"day-cell--today"} ELSE {})
         \cup (IF isFuture THEN {"day-cell--future"} ELSE {})
         \cup (IF hasMissingMandatory(statusProp, isFuture)
               THEN {"day-cell--missing-mandatory"} ELSE {})
         \cup (IF allMandatoryComplete(statusProp, isFuture)
               THEN {"day-cell--all-mandatory"} ELSE {})
         \cup (IF statusProp # <<>> /\ Len(statusProp[1].completedColors) > 0
               THEN {"day-cell--has-completions"} ELSE {}),
     style |-> dotStyle(statusProp, isFuture),
     disabled |-> isFuture,
     titleStar |-> allMandatoryComplete(statusProp, isFuture),
     todayRing |-> isToday,
     star |-> allMandatoryComplete(statusProp, isFuture)]

\* The props of one DayCell before it is rendered.
InitDayCell ==
    /\ stored = <<>>
    /\ ui = Unmounted
    /\ call \in [op : {"DayCellProps"}, status : StatusProps,
                  isToday : BOOLEAN, isFuture : BOOLEAN]

renderDayCell ==
    /\ call.op = "DayCellProps"
    /\ call' = [op |-> "DayCell", status |-> call.status, isToday |-> call.isToday,
                isFuture |-> call.isFuture,
                ret |-> DayCell(call.status, call.isToday, call.isFuture)]
    /\ UNCHANGED <<stored, ui>>

SpecDayCell == InitDayCell /\ [][renderDayCell]_vars

(***************************************************************************)
(* HabitProvider: one browser session over a storage whose setItem may     *)
(* throw.  ui is the React state of the provider.  An action is one event: *)
(* the handler, with the service call it makes, and the effects that run   *)
(* before the next event.  The ids the components pass are those of the    *)
(* habits on display.                                                      *)
(***************************************************************************)
\* The most log entries a session stores.
MaxSessionLogs == 1

\* The useState initial values.
InitialUi ==
    [mounted |-> TRUE,
     habits |-> <<>>,
     dayStatusMap |-> <<>>,
     selectedHabitIds |-> <<>>,
     currentYear |-> ThisYear,
     settings |-> [currentYear |-> ThisYear, notificationsEnabled |-> "undefined"],
     isLoading |-> TRUE]

\* What HabitService.getState reads from a storage content.
stateOf(store) ==
    IF store = <<>>
    THEN [habits |-> <<>>, logs |-> <<>>, settings |-> DEFAULT_SETTINGS]
    ELSE store[1]

\* HabitLogService.getDayStatusMap on a storage content; the provider always
\* passes its selectedHabitIds array.
statusMapOn(store, year, habits, selectedHabitIds) ==
    dayStatusMapOf(logsForYear(stateOf(store).logs, year), habits,
                   FilterOf(selectedHabitIds))

\* loadData with the values of the render u.
loadData(u, store) ==
    [u EXCEPT !.habits = stateOf(store).habits,
              !.settings = stateOf(store).settings,
              !.dayStatusMap = statusMapOn(store, u.currentYear, stateOf(store).habits,
                                           u.selectedHabitIds),
              !.isLoading = FALSE]

refreshMap_Skipped(u, w, store) == w

\* The second effect with the values of the render u, applied to the state w.
refreshMap(u, w, store) ==
    IF Len(u.habits) > 0
    THEN [w EXCEPT !.dayStatusMap =
             statusMapOn(store, u.currentYear, u.habits, u.selectedHabitIds)]
    ELSE w

\* The effects after a handler left the state u: keysChanged tells that
\* currentYear or selectedHabitIds changed (loadData has a new identity),
\* habitsSet that setHabits was called.  loadData calls setHabits, so the
\* second effect runs once more in the render that follows it.
runEffects(u, store, keysChanged, habitsSet) ==
    IF keysChanged
    THEN LET w == refreshMap(u, loadData(u, store), store)
         IN refreshMap(w, w, store)
    ELSE IF habitsSet THEN refreshMap(u, u, store)
    ELSE u

\* The storage after a service call.
storeAfter(result, setItemThrows) ==
    IF result.save THEN StorageSet(result.state, setItemThrows) ELSE stored

\* Services that keep the state object of the last mutator and read it back.
readBack_Cached(result, store) == <<result.state>>

\* What the reads that follow a service call see: getState reads the
\* storage on every call, the state object the mutator built is dropped.
readBack(result, store) == store

without_Keep(ids, id) == ids

\* Array.prototype.filter(x => x !== id)
without(ids, id) == SelectSeq(ids, LAMBDA x : x # id)

\* The updates HabitEditModal.handleSave sends: name, colour and mandatory
\* flag of the form, all three.
EditedHabitData == [name : Names, color : Colors, mandatory : BOOLEAN]

mount ==
    /\ ui' = runEffects(InitialUi, stored, TRUE, FALSE)
    /\ call' = [op |-> "mount"]
    /\ UNCHANGED stored

providerCreateHabit ==
    \E data \in CreateHabitData, id \in generateId, now \in Timestamps,
       setItemThrows \in BOOLEAN :
        LET r == createHabitOp(getState, id, data, now)
            store == storeAfter(r, setItemThrows)
            seen == readBack(r, store)
        IN /\ ui.mounted
           /\ stored' = store
           /\ ui' = runEffects([ui EXCEPT !.habits = stateOf(seen).habits],
                               seen, FALSE, TRUE)
           /\ call' = [op |-> "createHabit", ret |-> r.ret,
                       threw |-> setItemThrows]

providerUpdateHabit ==
    /\ ui.mounted
    /\ \E id \in HabitIds(ui.habits), updates \in EditedHabitData,
          setItemThrows \in BOOLEAN :
           LET r == updateHabitOp(getState, id, updates)
               store == storeAfter(r, setItemThrows)
               seen == readBack(r, store)
           IN /\ stored' = store
              /\ ui' = IF r.ret # <<>>
                       THEN runEffects([ui EXCEPT !.habits = stateOf(seen).habits],
                                       seen, FALSE, TRUE)
                       ELSE ui
              /\ call' = [op |-> "updateHabit", id |-> id,
                          threw |-> setItemThrows /\ r.save]

providerDeleteHabit ==
    /\ ui.mounted
    /\ \E id \in HabitIds(ui.habits), setItemThrows \in BOOLEAN :
           LET r == deleteHabitOp(getState, id)
               store == storeAfter(r, setItemThrows)
               seen == readBack(r, store)
               updatedHabits == stateOf(seen).habits
               currentSelected == without(ui.selectedHabitIds, id)
               selected == includes(ui.selectedHabitIds, id)
           IN /\ stored' = store
              /\ ui' = IF r.ret
                       THEN runEffects(
                                [ui EXCEPT
                                    !.selectedHabitIds =
                                        IF selected THEN without(@, id) ELSE @,
                                    !.habits = updatedHabits,
                                    !.dayStatusMap =
                                        statusMapOn(seen, ui.currentYear, updatedHabits,
                                                    currentSelected)],
                                seen, selected, TRUE)
                       ELSE ui
              /\ call' = [op |-> "deleteHabit", id |-> id, ret |-> r.ret,
                          selected |-> selected,
                          threw |-> setItemThrows /\ r.save]

providerToggleCompletion ==
    /\ ui.mounted
    /\ \E habitId \in HabitIds(ui.habits), date \in Dates, setItemThrows \in BOOLEAN :
           LET r == toggleCompletionOp(logGetState, habitId, date)
               store == storeAfter(r, setItemThrows)
               seen == readBack(r, store)
           IN /\ Len(r.state.logs) <= MaxSessionLogs
              /\ stored' = store
              /\ ui' = [ui EXCEPT !.dayStatusMap =
                            statusMapOn(seen, ui.currentYear, ui.habits,
                                        ui.selectedHabitIds)]
              /\ call' = [op |-> "toggleCompletion", habitId |-> habitId, date |-> date,
                          ret |-> r.ret, threw |-> setItemThrows]

providerSetCompletion ==
    /\ ui.mounted
    /\ \E habitId \in HabitIds(ui.habits), date \in Dates, completed \in BOOLEAN,
          setItemThrows \in BOOLEAN :
           LET r == setCompletionOp(logGetState, habitId, date, completed)
               store == storeAfter(r, setItemThrows)
               seen == readBack(r, store)
           IN /\ Len(r.state.logs) <= MaxSessionLogs
              /\ stored' = store
              /\ ui' = [ui EXCEPT !.dayStatusMap =
                            statusMapOn(seen, ui.currentYear, ui.habits,
                                        ui.selectedHabitIds)]
              /\ call' = [op |-> "setCompletion", habitId |-> habitId, date |-> date,
                          completed |-> completed, threw |-> setItemThrows]

setYear ==
    \E year \in Years, setItemThrows \in BOOLEAN :
        LET r == updateSettingsOp(getState, [currentYear |-> year])
            store == storeAfter(r, setItemThrows)
            seen == readBack(r, store)
        IN /\ ui.mounted
           /\ stored' = store
           /\ ui' = runEffects([ui EXCEPT !.currentYear = year], seen,
                               year # ui.currentYear, FALSE)
           /\ call' = [op |-> "updateSettings", year |-> year,
                       threw |-> setItemThrows]

newSelectionOf_AlwaysAppend(prev, habitId) == Append(prev, habitId)

\* The updater toggleHabitFilter passes to setSelectedHabitIds.
newSelectionOf(prev, habitId) ==
    IF includes(prev, habitId) THEN without(prev, habitId)
    ELSE Append(prev, habitId)

toggleHabitFilter ==
    /\ ui.mounted
    /\ \E habitId \in HabitIds(ui.habits) :
           LET newSelection == newSelectionOf(ui.selectedHabitIds, habitId)
           IN /\ ui' = runEffects([ui EXCEPT !.selectedHabitIds = newSelection],
                                  stored, TRUE, FALSE)
              /\ call' = [op |-> "toggleHabitFilter", habitId |-> habitId]
              /\ UNCHANGED stored

clearHabitFilters ==
    /\ ui.mounted
    /\ ui' = runEffects([ui EXCEPT !.selectedHabitIds = <<>>], stored, TRUE, FALSE)
    /\ call' = [op |-> "clearHabitFilters"]
    /\ UNCHANGED stored

NextSession ==
    \/ mount
    \/ providerCreateHabit
    \/ providerUpdateHabit
    \/ providerDeleteHabit
    \/ providerToggleCompletion
    \/ providerSetCompletion
    \/ setYear
    \/ toggleHabitFilter
    \/ clearHabitFilters

SpecSession == Init /\ [][NextSession]_vars

(***************************************************************************)
(* HabitForm and HabitEditModal: the create form, the edit form and the    *)
(* backfill of a past day.  ui is the local state of the open form; a text *)
(* field holds a sequence of characters, an error or success message is    *)
(* <<>> when null.  call records the handler that ran and calls, the calls *)
(* it made to the provider, in order.  An instant is a number of hours;    *)
(* the clock of the session reads 2024-01-01 in local time, and TzOffsets  *)
(* are the hours local time is behind UTC.                                 *)
(***************************************************************************)
FormNames == {<<>>, <<" ">>, <<" ", "R">>}
PastDates == {<<>>} \cup Dates
Today == D_2024_01_01
TzOffsets == {0 - 14, 0, 12}

Whitespace == {" "}

\* String.prototype.trim
RECURSIVE trim(_)
trim(s) ==
    IF s = <<>> THEN s
    ELSE IF s[1] \in Whitespace THEN trim(Tail(s))
    ELSE IF s[Len(s)] \in Whitespace THEN trim(SubSeq(s, 1, Len(s) - 1))
    ELSE s

digitOf(c) == CHOOSE n \in 0..9 : Digit(n) = c

RECURSIVE toNumber(_)
toNumber(s) ==
    IF s = <<>> THEN 0
    ELSE 10 * toNumber(SubSeq(s, 1, Len(s) - 1)) + digitOf(s[Len(s)])

\* new Date('YYYY-MM-DD'): midnight UTC of that day, on a calendar of
\* 31-day months (the order of instants is that of the real calendar).
DateOf(s) ==
    LET year == toNumber(SubSeq(s, 1, 4))
        month == toNumber(SubSeq(s, 6, 7))
        day == toNumber(SubSeq(s, 9, 10))
    IN (((year * 12) + (month - 1)) * 31 + (day - 1)) * 24

\* new Date() followed by setHours(0, 0, 0, 0): local midnight of today.
todayMidnight(tzOffset) == DateOf(Today) + tzOffset

isFutureDate_Never(pastDate, tzOffset) == FALSE

isFutureDate(pastDate, tzOffset) == DateOf(pastDate) > todayMidnight(tzOffset)

NoForm == [mounted |-> FALSE, form |-> "none"]

HabitFormState ==
    [mounted |-> FALSE, form |-> "HabitForm", name |-> <<>>,
     color |-> "#ef4444", mandatory |-> FALSE, reminderEnabled |-> FALSE,
     reminderTime |-> "08:00", error |-> <<>>]

HabitEditModalState(habit) ==
    [mounted |-> FALSE, form |-> "HabitEditModal", habit |-> habit,
     name |-> habit.name, color |-> habit.color,
     mandatory |-> habit.mandatory, reminderEnabled |-> FALSE,
     reminderTime |-> "08:00", pastDate |-> <<>>, error |-> <<>>,
     success |-> <<>>]

InitForms ==
    /\ stored = <<>>
    /\ call = [op |-> "none"]
    /\ ui = NoForm

openHabitForm ==
    /\ ui.form = "none"
    /\ ui' = HabitFormState
    /\ call' = [op |-> "openHabitForm", calls |-> <<>>]
    /\ UNCHANGED stored

openHabitEditModal ==
    /\ ui.form = "none"
    /\ \E i \in DOMAIN getHabits :
           ui' = HabitEditModalState(getHabits[i])
    /\ call' = [op |-> "openHabitEditModal", calls |-> <<>>]
    /\ UNCHANGED stored

closeForm ==
    /\ ui.form # "none"
    /\ ui' = NoForm
    /\ call' = [op |-> "onClose", calls |-> <<>>]
    /\ UNCHANGED stored

setName ==
    /\ ui.form # "none"
    /\ \E value \in FormNames : ui' = [ui EXCEPT !.name = value]
    /\ call' = [op |-> "setName", calls |-> <<>>]
    /\ UNCHANGED stored

setPastDate ==
    /\ ui.form = "HabitEditModal"
    /\ \E value \in PastDates : ui' = [ui EXCEPT !.pastDate = value]
    /\ call' = [op |-> "setPastDate", calls |-> <<>>]
    /\ UNCHANGED stored

\* HabitForm.handleSubmit
handleSubmit ==
    /\ ui.form = "HabitForm"
    /\ IF Len(trim(ui.name)) = 0
       THEN /\ ui' = [ui EXCEPT !.error = <<"El nombre es obligatorio">>]
            /\ call' = [op |-> "handleSubmit", calls |-> <<>>]
            /\ UNCHANGED stored
       ELSE \E id \in generateId, now \in Timestamps, setItemThrows \in BOOLEAN :
                LET data == [name |-> trim(ui.name), color |-> ui.color,
                             mandatory |-> ui.mandatory]
                    r == createHabitOp(getState, id, data, now)
                IN /\ stored' = storeAfter(r, setItemThrows)
                   /\ ui' = NoForm
                   /\ call' = [op |-> "handleSubmit",
                               calls |-> <<[fn |-> "createHabit", data |-> data]>>]

\* HabitEditModal.handleSave
handleSave ==
    /\ ui.form = "HabitEditModal"
    /\ IF Len(trim(ui.name)) = 0
       THEN /\ ui' = [ui EXCEPT !.error = <<"El nombre es obligatorio">>]
            /\ call' = [op |-> "handleSave", calls |-> <<>>]
            /\ UNCHANGED stored
       ELSE \E setItemThrows \in BOOLEAN :
                LET updates == [name |-> trim(ui.name), color |-> ui.color,
                                mandatory |-> ui.mandatory,
                                reminder |-> [enabled |-> ui.reminderEnabled,
                                              time |-> ui.reminderTime]]
                    r == updateHabitOp(getState, ui.habit.id, updates)
                IN /\ stored' = storeAfter(r, setItemThrows)
                   /\ ui' = NoForm
                   /\ call' = [op |-> "handleSave",
                               calls |-> <<[fn |-> "updateHabit",
                                            id |-> ui.habit.id,
                                            updates |-> updates]>>]

\* HabitEditModal.handleAddPastDay
handleAddPastDay ==
    /\ ui.form = "HabitEditModal"
    /\ \E tzOffset \in TzOffsets :
        IF Len(ui.pastDate) = 0
        THEN /\ ui' = [ui EXCEPT !.error = <<"Selecciona una fecha">>]
             /\ call' = [op |-> "handleAddPastDay", calls |-> <<>>]
             /\ UNCHANGED stored
        ELSE IF isFutureDate(ui.pastDate, tzOffset)
        THEN /\ ui' = [ui EXCEPT !.error = <<"No puedes marcar días futuros">>]
             /\ call' = [op |-> "handleAddPastDay", calls |-> <<>>]
             /\ UNCHANGED stored
        ELSE \E setItemThrows \in BOOLEAN :
                 LET r == setCompletionOp(logGetState, ui.habit.id,
                                          ui.pastDate, TRUE)
                 IN /\ stored' = storeAfter(r, setItemThrows)
                    /\ ui' = [ui EXCEPT !.success = <<[text |-> "marcado como completado",
                                                        date |-> ui.pastDate]>>,
                                        !.pastDate = <<>>, !.error = <<>>]
                    /\ call' = [op |-> "handleAddPastDay",
                                calls |-> <<[fn |-> "setCompletion",
                                             habitId |-> ui.habit.id,
                                             date |-> ui.pastDate,
                                             completed |-> TRUE]>>]

\* The timer of handleAddPastDay clearing the success message.
clearSuccess ==
    /\ ui.form = "HabitEditModal"
    /\ ui.success # <<>>
    /\ ui' = [ui EXCEPT !.success = <<>>]
    /\ call' = [op |-> "clearSuccess", calls |-> <<>>]
    /\ UNCHANGED stored

NextForms ==
    \/ openHabitForm
    \/ openHabitEditModal
    \/ closeForm
    \/ setName
    \/ setPastDate
    \/ handleSubmit
    \/ handleSave
    \/ handleAddPastDay
    \/ clearSuccess

SpecForms == InitForms /\ [][NextForms]_vars

(***************************************************************************)
(* HabitMenu: the delete button of each habit asks for a second click.     *)
(* ui is the state of the menu: deletingId (<<>> when null) and the timers *)
(* that handleDelete started and that have not fired, oldest first, each   *)
(* with the habit whose click started it and the seconds left before it    *)
(* is due.  Time advances by seconds, and not past a timer that is due.    *)
(***************************************************************************)
MaxTimers == 2
TimerDelay == 3

MenuHabits ==
    <<[id |-> "a", name |-> "Run", color |-> "#ef4444", mandatory |-> TRUE,
       createdAt |-> "2024-01-01T08:00:00.000Z"],
      [id |-> "b", name |-> "Run", color |-> "#3b82f6", mandatory |-> FALSE,
       createdAt |-> "2024-01-01T08:00:00.000Z"]>>

HabitMenuState == [mounted |-> FALSE, deletingId |-> <<>>, timers |-> <<>>]

InitMenu ==
    /\ stored = <<[habits |-> MenuHabits, logs |-> <<>>,
                   settings |-> DEFAULT_SETTINGS]>>
    /\ call = [op |-> "none"]
    /\ ui = HabitMenuState

confirmsDelete_Always(deletingId, id) == TRUE

\* deletingId === id
confirmsDelete(deletingId, id) == deletingId = <<id>>

\* HabitMenu.handleDelete, from the delete button of a habit on display.
handleDelete ==
    \E id \in HabitIds(getHabits) :
        IF confirmsDelete(ui.deletingId, id)
        THEN \E setItemThrows \in BOOLEAN :
                 LET r == deleteHabitOp(getState, id)
                 IN /\ stored' = storeAfter(r, setItemThrows)
                    /\ ui' = [ui EXCEPT !.deletingId = <<>>]
                    /\ call' = [op |-> "handleDelete", id |-> id,
                                calls |-> <<[fn |-> "deleteHabit", id |-> id]>>]
        ELSE /\ Len(ui.timers) < MaxTimers
             /\ ui' = [ui EXCEPT !.deletingId = <<id>>,
                                 !.timers = Append(@, [startedFor |-> id,
                                                       remaining |-> TimerDelay])]
             /\ call' = [op |-> "handleDelete", id |-> id, calls |-> <<>>]
             /\ UNCHANGED stored

\* The callback of setTimeout(() => setDeletingId(null), 3000).
timerCallback ==
    /\ ui.timers # <<>>
    /\ Head(ui.timers).remaining = 0
    /\ ui' = [ui EXCEPT !.deletingId = <<>>, !.timers = Tail(@)]
    /\ call' = [op |-> "timerCallback", startedFor |-> Head(ui.timers).startedFor,
                calls |-> <<>>]
    /\ UNCHANGED stored

\* One second passes.
tick ==
    /\ ui.timers # <<>>
    /\ \A i \in DOMAIN ui.timers : ui.timers[i].remaining > 0
    /\ ui' = [ui EXCEPT !.timers =
                 [i \in DOMAIN @ |-> [@[i] EXCEPT !.remaining = @ - 1]]]
    /\ call' = [op |-> "tick", calls |-> <<>>]
    /\ UNCHANGED stored

NextMenu ==
    \/ handleDelete
    \/ timerCallback
    \/ tick

SpecMenu == InitMenu /\ [][NextMenu]_vars

(***************************************************************************)
(* usePWAInstall: ui is the state of the hook, installState and            *)
(* deferredPrompt (<<>> when null), listening once the effect has added    *)
(* the listeners, and pending, the promptInstall calls that wait for the   *)
(* user's choice, each with the event its closure holds.  A prompt event   *)
(* is prompted at most once.                                               *)
(***************************************************************************)
MaxPending == 2
PromptEvents == {"e1", "e2", "e3", "e4"}
Outcomes == {"accepted", "dismissed"}

PWAInstallState ==
    [mounted |-> FALSE, installState |-> "idle", deferredPrompt |-> <<>>,
     listening |-> FALSE, pending |-> <<>>]

InitInstall ==
    /\ stored = <<>>
    /\ call = [op |-> "none"]
    /\ ui = PWAInstallState

\* The effect of the first render.
installEffect ==
    /\ call.op = "none"
    /\ \E standalone \in BOOLEAN :
           /\ ui' = IF standalone
                    THEN [ui EXCEPT !.installState = "installed"]
                    ELSE [ui EXCEPT !.listening = TRUE]
           /\ call' = [op |-> "useEffect", standalone |-> standalone]
    /\ UNCHANGED stored

handleBeforeInstallPrompt ==
    /\ ui.listening
    /\ \E event \in PromptEvents :
           /\ \A i \in DOMAIN ui.pending : ui.pending[i].event # event
           /\ ui' = [ui EXCEPT !.deferredPrompt = <<event>>,
                               !.installState = "prompt-available"]
           /\ call' = [op |-> "beforeinstallprompt", event |-> event]
    /\ UNCHANGED stored

handleAppInstalled ==
    /\ ui.listening
    /\ ui' = [ui EXCEPT !.deferredPrompt = <<>>, !.installState = "installed"]
    /\ call' = [op |-> "appinstalled"]
    /\ UNCHANGED stored

\* The installState promptInstall sets once the user has chosen.
stateAfterChoice(outcome) ==
    IF outcome = "accepted" THEN "installed" ELSE "prompt-available"

\* promptInstall up to the await of the user's choice.
promptInstall ==
    /\ call.op # "none"
    /\ IF ui.deferredPrompt = <<>>
       THEN /\ ui' = ui
            /\ call' = [op |-> "promptInstall", prompted |-> <<>>,
                        warned |-> "Install prompt not available"]
       ELSE /\ Len(ui.pending) < MaxPending
            /\ \A i \in DOMAIN ui.pending :
                   ui.pending[i].event # ui.deferredPrompt[1]
            /\ ui' = [ui EXCEPT !.installState = "installing",
                                !.pending = Append(@, [event |-> ui.deferredPrompt[1]])]
            /\ call' = [op |-> "promptInstall", prompted |-> ui.deferredPrompt,
                        warned |-> ""]
    /\ UNCHANGED stored

\* promptInstall after deferredPrompt.userChoice has resolved.
userChoice ==
    /\ ui.pending # <<>>
    /\ \E i \in DOMAIN ui.pending, outcome \in Outcomes :
           /\ ui' = [ui EXCEPT !.installState = stateAfterChoice(outcome),
                               !.deferredPrompt = <<>>,
                               !.pending = SubSeq(@, 1, i - 1)
                                               \o SubSeq(@, i + 1, Len(@))]
           /\ call' = [op |-> "userChoice", event |-> ui.pending[i].event,
                       outcome |-> outcome]
    /\ UNCHANGED stored

NextInstall ==
    \/ installEffect
    \/ handleBeforeInstallPrompt
    \/ handleAppInstalled
    \/ promptInstall
    \/ userChoice

SpecInstall == InitInstall /\ [][NextInstall]_vars

(***************************************************************************)
(* Vocabulary of the properties.                                           *)
(***************************************************************************)
DigitValue(c) == CHOOSE n \in 0..9 : Digit(n) = c

RECURSIVE ParseNumber(_)
ParseNumber(s) ==
    IF s = <<>> THEN 0
    ELSE 10 * ParseNumber(SubSeq(s, 1, Len(s) - 1)) + DigitValue(s[Len(s)])

\* The year a "YYYY-MM-DD" date names: the number before its first "-".
YearOfDate(date) ==
    LET dash == CHOOSE i \in 1..Len(date) :
                    date[i] = "-" /\ \A j \in 1..(i - 1) : date[j] # "-"
    IN ParseNumber(SubSeq(date, 1, dash - 1))

FilterOn(habitFilter) == habitFilter.defined /\ habitFilter.ids # <<>>

FilterIdSet(habitFilter) == {habitFilter.ids[i] : i \in DOMAIN habitFilter.ids}

\* The ids of the active habit set of a getDayStatusMap call.
ActiveHabitIds(habits, habitFilter) ==
    IF FilterOn(habitFilter)
    THEN HabitIds(habits) \cap FilterIdSet(habitFilter)
    ELSE HabitIds(habits)

\* The log entries of a date that belong to the habits ids.
EntriesOn(logs, date, ids) ==
    {i \in DOMAIN logs : logs[i].date = date /\ logs[i].habitId \in ids}

CompletedOn(logs, date, ids) ==
    {i \in EntriesOn(logs, date, ids) : logs[i].completed}

LogKeysUnique(logs) ==
    \A i, j \in DOMAIN logs :
        (logs[i].habitId = logs[j].habitId /\ logs[i].date = logs[j].date) => i = j

IsQuery == call.op \in {"getDayStatusMap", "getDayStatusMapAll"}

QueryFilter == IF call.op = "getDayStatusMap" THEN call.habitFilter ELSE NoFilter

IsFilteredQuery == call.op = "getDayStatusMap" /\ FilterOn(call.habitFilter)

IsCompletionWrite == call.op \in {"toggleCompletion", "setCompletion"}

(***************************************************************************)
(* Properties of the habit registry and of the completion log.             *)
(***************************************************************************)

C2_LogKeyUnique ==
    /\ LogKeysUnique(getLogs)
    /\ (IsCompletionWrite /\ call.existed) =>
          /\ Len(getLogs) = call.length
          /\ LogIndex(getLogs, call.habitId, call.date) = call.index

\* A write to a pair that had an entry, in a log of two entries.
C2_Witness ==
    /\ IsCompletionWrite
    /\ call.existed
    /\ Len(getLogs) = 2

C6_FilterColors ==
    IsFilteredQuery =>
        \A date \in DOMAIN call.ret :
            \A k \in DOMAIN call.ret[date].completedColors :
                \E j \in DOMAIN call.habits :
                    /\ call.habits[j].id \in FilterIdSet(call.habitFilter)
                    /\ call.habits[j].color = call.ret[date].completedColors[k]
                    /\ CompletedOn(getLogs, date, {call.habits[j].id}) # {}

\* A filtered call whose map shows a color while a habit outside the filter,
\* of another color, is completed on the same date.
C6_Witness ==
    /\ IsFilteredQuery
    /\ \E date \in DOMAIN call.ret :
          /\ call.ret[date].completedColors # <<>>
          /\ \E j \in DOMAIN call.habits :
                /\ call.habits[j].id \notin FilterIdSet(call.habitFilter)
                /\ call.habits[j].color # call.ret[date].completedColors[1]
                /\ CompletedOn(getLogs, date, {call.habits[j].id}) # {}

\* C7 (filter narrowing, totals): in the map of a getDayStatusMap call with
\* a non-empty habitFilter, mandatoryTotal + optionalTotal of every date is
\* the number of supplied habits whose id is in the filter; when no filter
\* id is the id of a supplied habit both totals are 0 and completedColors is
\* empty.
C7_FilterTotals ==
    IsFilteredQuery =>
        \A date \in DOMAIN call.ret :
            LET status == call.ret[date]
                selected == {j \in DOMAIN call.habits :
                                call.habits[j].id \in FilterIdSet(call.habitFilter)}
            IN /\ status.mandatoryTotal + status.optionalTotal = Cardinality(selected)
               /\ selected = {} =>
                     /\ status.mandatoryTotal = 0
                     /\ status.optionalTotal = 0
                     /\ status.completedColors = <<>>

\* A filtered call on two stored habits, one of them in the filter, whose map
\* has a date.
C7_Witness ==
    /\ IsFilteredQuery
    /\ DOMAIN call.ret # {}
    /\ Len(call.habits) = 2
    /\ Cardinality(HabitIds(call.habits) \cap FilterIdSet(call.habitFilter)) = 1

\* C8 (sparsity): the map of a getDayStatusMap call for a year in which the
\* persisted log has no entry is empty, and every key of a map is a date of
\* the requested year.
C8_Sparsity ==
    IsQuery =>
        /\ (\A i \in DOMAIN getLogs : YearOfDate(getLogs[i].date) # call.year)
              => DOMAIN call.ret = {}
        /\ \A date \in DOMAIN call.ret : YearOfDate(date) = call.year

\* A call for a year without entries while the log has a completed entry of
\* a stored habit in another year.
C8_Witness ==
    /\ IsQuery
    /\ DOMAIN call.ret = {}
    /\ \E i \in DOMAIN getLogs :
          /\ YearOfDate(getLogs[i].date) # call.year
          /\ getLogs[i].completed
          /\ getLogs[i].habitId \in HabitIds(call.habits)

\* C9 (keys need an active entry): every key of the map of a
\* getDayStatusMap call is a date on which the log has an entry of a habit
\* of the active habit set.
C9_KeysHaveActiveEntry ==
    call.op = "getDayStatusMap" =>
        \A date \in DOMAIN call.ret :
            EntriesOn(getLogs, date,
                      ActiveHabitIds(call.habits, call.habitFilter)) # {}

\* C10 (presence follows the log, not completion): every date of the
\* requested year with a log entry of an active habit is a key of the map,
\* with or without filter; when none of these entries is completed its
\* counts are 0 and its completedColors is empty.
C10_PresenceOnLog ==
    IsQuery =>
        \A date \in Dates :
            LET active == ActiveHabitIds(call.habits, QueryFilter)
            IN (YearOfDate(date) = call.year /\ EntriesOn(getLogs, date, active) # {})
               => /\ date \in DOMAIN call.ret
                  /\ CompletedOn(getLogs, date, active) = {}
                     => /\ call.ret[date].mandatoryCompleted = 0
                        /\ call.ret[date].optionalCompleted = 0
                        /\ call.ret[date].completedColors = <<>>

\* A call without filter whose map has a date on which the stored habits
\* have entries, none of them completed.
C10_Witness ==
    /\ call.op = "getDayStatusMap"
    /\ ~FilterOn(call.habitFilter)
    /\ \E date \in DOMAIN call.ret :
          /\ EntriesOn(getLogs, date, HabitIds(call.habits)) # {}
          /\ \A i \in DOMAIN getLogs : getLogs[i].date = date => ~getLogs[i].completed

(***************************************************************************)
(* Properties of the day-status map, continued.                            *)
(***************************************************************************)

\* The completed entries of a date whose habit is in ids and is (is not)
\* mandatory.
CompletedOfKind(logs, habits, date, ids, mandatory) ==
    {i \in CompletedOn(logs, date, ids) :
        habits[HabitIndex(habits, logs[i].habitId)].mandatory = mandatory}

\* The entries of a date whose habitId matches no habit of ids.
DanglingOn(logs, date, ids) ==
    {i \in DOMAIN logs : logs[i].date = date /\ logs[i].habitId \notin ids}

\* C11 (dangling references are skipped): in every map a getDayStatusMap call
\* returned, mandatoryCompleted, optionalCompleted and the colours of a date
\* count exactly the completed entries whose habitId is the id of a habit of
\* the active habit set, each with that habit's colour; an entry whose
\* habitId matches no active habit adds nothing, and the call returns a map.
C11_DanglingSkipped ==
    IsQuery =>
        LET active == ActiveHabitIds(call.habits, QueryFilter)
        IN \A date \in DOMAIN call.ret :
              LET status == call.ret[date]
                  done == CompletedOn(getLogs, date, active)
              IN /\ status.mandatoryCompleted
                        = Cardinality(CompletedOfKind(getLogs, call.habits, date, active, TRUE))
                 /\ status.optionalCompleted
                        = Cardinality(CompletedOfKind(getLogs, call.habits, date, active, FALSE))
                 /\ Len(status.completedColors) = Cardinality(done)
                 /\ \A k \in DOMAIN status.completedColors :
                        \E i \in done :
                            status.completedColors[k]
                                = call.habits[HabitIndex(call.habits, getLogs[i].habitId)].color

\* A map with a date that holds a completed entry of a stored habit next to
\* a completed entry whose habit does not exist.
C11_Witness ==
    /\ call.op = "getDayStatusMap"
    /\ \E date \in DOMAIN call.ret :
          LET active == ActiveHabitIds(call.habits, call.habitFilter)
          IN /\ \E i \in DanglingOn(getLogs, date, active) :
                    getLogs[i].completed /\ getLogs[i].habitId \notin HabitIds(call.habits)
             /\ CompletedOn(getLogs, date, active) # {}
             /\ Len(call.ret[date].completedColors) = 1

IsCssVar(background, name) == background.css = "var" /\ background.arg = name

\* C13 (degenerate mandatory): a DayCell rendered from a DayStatus whose
\* mandatoryTotal is 0 never carries the class day-cell--all-mandatory, never
\* shows the star (element or title), and never gets the background of the
\* mandatory-only rule, var(--color-primary).
C13_NoVacuousMandatory ==
    (call.op = "DayCell" /\ call.status # <<>> /\ call.status[1].mandatoryTotal = 0) =>
        /\ "day-cell--all-mandatory" \notin call.ret.className
        /\ ~call.ret.star
        /\ ~call.ret.titleStar
        /\ ~IsCssVar(call.ret.style.background, "--color-primary")

\* A past day without filter, no mandatory habit, and one of two optional
\* habits completed.
C13_Witness ==
    /\ call.op = "DayCell"
    /\ call.status # <<>>
    /\ ~call.isFuture
    /\ call.status[1].mandatoryTotal = 0
    /\ call.status[1].optionalTotal = 2
    /\ call.status[1].optionalCompleted = 1
    /\ ~Truthy(call.status[1].isFiltered)
    /\ IsCssVar(call.ret.style.background, "--color-warning")

(***************************************************************************)
(* Properties of the habit registry, continued.  They relate the persisted *)
(* record before a call (unprimed) to the call made and the record after   *)
(* it (primed).                                                            *)
(***************************************************************************)
IdSeq(habits) == [i \in DOMAIN habits |-> habits[i].id]

\* The persisted habits after the step.
HabitsAfter == IF stored' = <<>> THEN <<>> ELSE stored'[1].habits

HabitFields == {"name", "color", "mandatory"}

\* C14 (update of an unknown id): updateHabit with an id that no stored
\* habit has returns null and leaves the persisted record, habits, logs and
\* settings, as it was.
C14_UpdateUnknown ==
    [][(call'.op = "updateHabit" /\ call'.id \notin HabitIds(getHabits)) =>
          (call'.ret = <<>> /\ stored' = stored)]_vars

\* An update of an unknown id on a record that holds another habit and a
\* log entry.
C14_Witness ==
    /\ call.op = "updateHabit"
    /\ call.id \notin HabitIds(getHabits)
    /\ call.ret = <<>>
    /\ call.updates # EmptyObject
    /\ getHabits # <<>>
    /\ getLogs # <<>>

\* C15 (update frame): updateHabit on a stored habit returns a habit whose
\* fields present in updates (name, color, mandatory) have the given values
\* and whose other fields, id and createdAt among them, have the values
\* stored before; the persisted record after the call is the one before it
\* with that habit at the same position: every other habit, every log entry
\* and the settings are unchanged.
C15_UpdateFrame ==
    [][call'.op = "updateHabit" =>
          \A i \in DOMAIN getHabits :
              getHabits[i].id = call'.id =>
                  /\ call'.ret # <<>>
                  /\ DOMAIN call'.ret[1] = DOMAIN getHabits[i]
                  /\ \A f \in DOMAIN getHabits[i] :
                         call'.ret[1][f] = IF f \in DOMAIN call'.updates
                                           THEN call'.updates[f]
                                           ELSE getHabits[i][f]
                  /\ DOMAIN call'.updates \subseteq HabitFields
                  /\ stored' = <<[getState EXCEPT !.habits[i] = call'.ret[1]]>>]_vars

\* An update of the colour alone of the first of two habits, with a log
\* entry stored.
C15_Witness ==
    /\ call.op = "updateHabit"
    /\ call.ret # <<>>
    /\ DOMAIN call.updates = {"color"}
    /\ Len(getHabits) = 2
    /\ getHabits[1].id = call.id
    /\ getHabits[1].color = call.updates.color
    /\ getHabits[2].color # call.updates.color
    /\ getLogs # <<>>

\* C16 (delete result): deleteHabit(id) returns true exactly when a habit
\* with that id was stored before the call, and when it returns false the
\* persisted record, habits, logs and settings, is as before.
C16_DeleteResult ==
    [][call'.op = "deleteHabit" =>
          /\ call'.ret <=> call'.id \in HabitIds(getHabits)
          /\ ~call'.ret => stored' = stored]_vars

\* A delete that returned false while the log holds an entry of the id and
\* another habit is stored.
C16_Witness ==
    /\ call.op = "deleteHabit"
    /\ ~call.ret
    /\ call.id \in LogHabitIds(getLogs)
    /\ getHabits # <<>>

\* C17 (insertion order): createHabit puts the new habit after all stored
\* ones, updateHabit keeps the list of ids, deleteHabit removes the id and
\* keeps the others in their order, and no other call changes the list; so
\* getHabits lists the surviving habits in the order of their creation.
C17_InsertionOrder ==
    [][LET ids == IdSeq(getHabits)
           idsAfter == IdSeq(HabitsAfter)
       IN CASE call'.op = "createHabit" ->
                    /\ call'.ret.id \notin HabitIds(getHabits)
                    /\ idsAfter = Append(ids, call'.ret.id)
            [] call'.op = "deleteHabit" ->
                    idsAfter = SelectSeq(ids, LAMBDA x : x # call'.id)
            [] OTHER -> idsAfter = ids]_vars

\* A second habit was created after the first and stands behind it.
C17_Witness ==
    /\ call.op = "createHabit"
    /\ Len(getHabits) = 2
    /\ getHabits[2] = call.ret
    /\ getHabits[1].id = "b"

\* C18 (create carries its data): right after createHabit(data) the last
\* stored habit is the returned one, no other stored habit has its id, and
\* it carries the name, colour and mandatory flag of data and, when data
\* has a reminder, that reminder.
C18_CreateCarriesData ==
    call.op = "createHabit" =>
        LET habits == getHabits
            n == Len(habits)
        IN /\ n > 0
           /\ habits[n] = call.ret
           /\ \A j \in 1..(n - 1) : habits[j].id # call.ret.id
           /\ call.ret.name = call.data.name
           /\ call.ret.color = call.data.color
           /\ call.ret.mandatory = call.data.mandatory
           /\ "reminder" \in DOMAIN call.data =>
                  /\ "reminder" \in DOMAIN call.ret
                  /\ call.ret.reminder = call.data.reminder

(***************************************************************************)
(* Properties of a session whose storage writes may throw.                 *)
(***************************************************************************)
\* The call was a mutator whose storage write threw.
Threw(c) == "threw" \in DOMAIN c /\ c.threw

Mutators ==
    {"createHabit", "updateHabit", "deleteHabit", "toggleCompletion",
     "setCompletion", "updateSettings"}

\* Every read of the services gives a value: the habits, the settings,
\* isCompleted of every pair, and the status map of every year and filter.
ReadsComplete ==
    /\ getHabits \in Seq([id : Ids, name : Names, color : Colors,
                          mandatory : BOOLEAN, createdAt : Timestamps])
    /\ getSettings.currentYear \in Years
    /\ \A habitId \in Ids, date \in Dates : isCompleted(habitId, date) \in BOOLEAN
    /\ \A year \in Years, habitFilter \in HabitFilters :
          DOMAIN getDayStatusMap(year, getHabits, habitFilter) \subseteq Dates

\* C19 (a failing write is contained): when setItem throws during createHabit,
\* updateHabit, deleteHabit, toggleCompletion, setCompletion or
\* updateSettings, the call still returns its value (the new status, the
\* new habit, true), the persisted record is what it was before the call,
\* and afterwards every read and getDayStatusMap give a value.
C19_WriteFailureContained ==
    /\ [][Threw(call') =>
             /\ call'.op \in Mutators
             /\ stored' = stored
             /\ call'.op = "toggleCompletion" =>
                    call'.ret = ~isCompleted(call'.habitId, call'.date)
             /\ call'.op = "createHabit" =>
                    call'.ret.id \notin HabitIds(getHabits)
             /\ call'.op = "deleteHabit" => call'.ret]_vars
    /\ [](Threw(call) => ReadsComplete)

\* A toggle whose write threw: it returned true and the stored record, with
\* a habit and no entry for the pair, is as before.
C19_Witness ==
    /\ Threw(call)
    /\ call.op = "toggleCompletion"
    /\ call.ret
    /\ stored # <<>>
    /\ call.habitId \in HabitIds(getHabits)
    /\ LogIndex(getLogs, call.habitId, call.date) = 0

\* The original reading of the session after a failed write: the habit list
\* of the provider shows the new habit, and isCompleted and the status map
\* of the provider show the toggled completion.
C20_MemoryKeepsChange ==
    [][Threw(call') =>
          /\ call'.op = "createHabit" => ui'.habits = Append(ui.habits, call'.ret)
          /\ call'.op = "toggleCompletion" =>
                 LET attempted == toggleCompletionOp(logGetState, call'.habitId,
                                                     call'.date).state
                 IN /\ isCompletedIn(stateOf(stored').logs, call'.habitId, call'.date)
                        = call'.ret
                    /\ ui'.dayStatusMap
                        = statusMapOn(<<attempted>>, ui.currentYear, ui.habits,
                                      ui.selectedHabitIds)]_vars

\* C20 (what the session shows after a failed write): the provider has no
\* copy of its own.  After createHabit, updateHabit, toggleCompletion or
\* setCompletion whose write threw, the whole provider state (habit list,
\* status map, selection, year, settings) is what it was before the call,
\* and after any failed write the habit list is the stored one, isCompleted
\* of every pair is as before, and the status map is the one of the stored
\* record for the year and selection on display.  A failed deleteHabit
\* still lists the habit but drops its id from the selection, and a failed
\* updateSettings still switches currentYear, the settings on display being
\* the stored ones once the year changed.
C20_SessionShowsStored ==
    [][Threw(call') =>
          /\ call'.op \in {"createHabit", "updateHabit", "toggleCompletion",
                            "setCompletion"} => ui' = ui
          /\ ui'.habits = ui.habits
          /\ ui'.habits = stateOf(stored').habits
          /\ \A habitId \in Ids, date \in Dates :
                 isCompletedIn(stateOf(stored').logs, habitId, date)
                     = isCompleted(habitId, date)
          /\ ui'.dayStatusMap = statusMapOn(stored', ui'.currentYear, ui'.habits,
                                            ui'.selectedHabitIds)
          /\ call'.op = "deleteHabit" =>
                 /\ call'.id \in HabitIds(ui'.habits)
                 /\ ui'.selectedHabitIds = without(ui.selectedHabitIds, call'.id)
          /\ call'.op = "updateSettings" =>
                 /\ ui'.currentYear = call'.year
                 /\ call'.year # ui.currentYear =>
                        ui'.settings = stateOf(stored).settings]_vars

\* A createHabit whose write threw, next to a stored habit: the list on
\* display is the stored one and lacks the habit that was returned.
C20_Witness ==
    /\ Threw(call)
    /\ call.op = "createHabit"
    /\ ui.habits # <<>>
    /\ ui.habits = getHabits
    /\ call.ret.id \notin HabitIds(ui.habits)
(***************************************************************************)
(* Properties of the forms.                                                *)
(***************************************************************************)
IsBlank(name) == \A i \in DOMAIN name : name[i] = " "

\* The day a 'YYYY-MM-DD' date names, as the number YYYYMMDD.
DayNumber(date) ==
    ParseNumber(SubSeq(date, 1, 4) \o SubSeq(date, 6, 7) \o SubSeq(date, 9, 10))

AfterToday(date) == DayNumber(date) > DayNumber(Today)

Rejected == /\ stored' = stored
            /\ call'.calls = <<>>
            /\ ui'.error # <<>>

\* C21: submitting the create form or the edit form with an empty or
\* whitespace-only name, or asking to backfill with no date or with a date
\* after today, sets an error message, calls none of createHabit,
\* updateHabit and setCompletion, and leaves the persisted state unchanged.
C21_ValidationNeverMutates ==
    [][/\ (call'.op \in {"handleSubmit", "handleSave"} /\ IsBlank(ui.name))
            => Rejected
       /\ (call'.op = "handleAddPastDay"
             /\ (ui.pastDate = <<>> \/ AfterToday(ui.pastDate)))
            => Rejected]_vars

C21_Witness ==
    /\ call.op = "handleAddPastDay"
    /\ ui.pastDate = D_2025_01_01
    /\ ui.error = <<"No puedes marcar días futuros">>
    /\ call.calls = <<>>
    /\ getHabits # <<>>

SelectedSet(ids) == {ids[i] : i \in DOMAIN ids}

NoDuplicates(ids) == \A i, j \in DOMAIN ids : ids[i] = ids[j] => i = j

\* C23: toggleHabitFilter(id) adds id to the selection when it is absent and
\* removes it when present, a second toggle of the same id gives back the
\* selection there was (as a set of ids), the list never holds an id twice,
\* and clearHabitFilters leaves the selection empty.
C23_FilterSelection ==
    [][/\ call'.op = "toggleHabitFilter" =>
            LET id == call'.habitId
                before == SelectedSet(ui.selectedHabitIds)
            IN /\ SelectedSet(ui'.selectedHabitIds)
                     = IF id \in before THEN before \ {id} ELSE before \cup {id}
               /\ SelectedSet(newSelectionOf(ui'.selectedHabitIds, id)) = before
       /\ call'.op = "clearHabitFilters" => ui'.selectedHabitIds = <<>>
       /\ ui'.mounted => NoDuplicates(ui'.selectedHabitIds)]_vars

\* The id was toggled off and on again next to another selected id.
C23_Witness ==
    /\ ui.mounted
    /\ call.op = "toggleHabitFilter"
    /\ call.habitId = "a"
    /\ ui.selectedHabitIds = <<"b", "a">>

(***************************************************************************)
(* Properties of the colour of a day.                                      *)
(***************************************************************************)
\* A rendered day that is not in the future and whose status is not in
\* filtered mode.
UnfilteredDay ==
    /\ call.op = "DayCell"
    /\ ~call.isFuture
    /\ call.status # <<>>
    /\ ~Truthy(call.status[1].isFiltered)

Shows(name) == IsCssVar(call.ret.style.background, name)

TotalOf(status) == status.mandatoryTotal + status.optionalTotal

CompletedOf(status) == status.mandatoryCompleted + status.optionalCompleted

AllComplete(status) ==
    TotalOf(status) > 0 /\ CompletedOf(status) = TotalOf(status)

MandatoryComplete(status) ==
    status.mandatoryTotal > 0 /\ status.mandatoryCompleted = status.mandatoryTotal

\* The five backgrounds of the normal mode, one per class: all-complete,
\* mandatory-only-complete, partial-mixed, none-complete, no-data.
ClassColours ==
    {"--color-success", "--color-primary", "--color-warning", "--color-error",
     "--color-bg-tertiary"}

\* C24 as the thresholds state it: green exactly when everything is
\* completed, the mandatory-only colour whenever the mandatory habits are all
\* completed and the day is not all-complete, red exactly when habits exist
\* and nothing is completed, and one class per day.
C24_SpecThresholds ==
    UnfilteredDay =>
        LET status == call.status[1]
        IN /\ Shows("--color-success") <=> AllComplete(status)
           /\ (MandatoryComplete(status) /\ ~AllComplete(status))
                  => Shows("--color-primary")
           /\ Shows("--color-error")
                  <=> (TotalOf(status) > 0 /\ CompletedOf(status) = 0)
           /\ Cardinality({c \in ClassColours : Shows(c)}) = 1

\* C24: green exactly when everything is completed; the mandatory-only
\* colour exactly when the mandatory habits are all completed, the day is
\* not all-complete and no optional habit is completed; red exactly when
\* habits exist and nothing is completed; the partial colour exactly when
\* something is completed and the day is in neither of the first two
\* classes; the no-data colour exactly when there is no habit; one class
\* per day.
C24_ColourClasses ==
    UnfilteredDay =>
        LET status == call.status[1]
        IN /\ Shows("--color-success") <=> AllComplete(status)
           /\ Shows("--color-primary")
                  <=> /\ MandatoryComplete(status)
                      /\ ~AllComplete(status)
                      /\ status.optionalCompleted = 0
           /\ Shows("--color-error")
                  <=> (TotalOf(status) > 0 /\ CompletedOf(status) = 0)
           /\ Shows("--color-warning")
                  <=> /\ CompletedOf(status) > 0
                      /\ ~AllComplete(status)
                      /\ ~(MandatoryComplete(status) /\ status.optionalCompleted = 0)
           /\ Shows("--color-bg-tertiary") <=> TotalOf(status) = 0
           /\ Cardinality({c \in ClassColours : Shows(c)}) = 1

\* The mandatory habit is completed and one of two optional habits: the day
\* shows the partial colour, not the mandatory-only one.
C24_Witness ==
    /\ UnfilteredDay
    /\ call.status[1].mandatoryTotal = 1
    /\ call.status[1].mandatoryCompleted = 1
    /\ call.status[1].optionalTotal = 2
    /\ call.status[1].optionalCompleted = 1
    /\ Shows("--color-warning")

(***************************************************************************)
(* Properties of the counters of a DayStatus.                              *)
(***************************************************************************)
\* C25: after any sequence of createHabit, updateHabit, deleteHabit,
\* toggleCompletion and setCompletion from the empty state, every DayStatus
\* getDayStatusMap returns for the stored habits and any filter has
\* 0 <= mandatoryCompleted <= mandatoryTotal,
\* 0 <= optionalCompleted <= optionalTotal, and as many completedColors as
\* mandatoryCompleted + optionalCompleted.
C25_CounterBounds ==
    call.op = "getDayStatusMap" =>
        \A date \in DOMAIN call.ret :
            LET status == call.ret[date]
            IN /\ 0 <= status.mandatoryCompleted
               /\ status.mandatoryCompleted <= status.mandatoryTotal
               /\ 0 <= status.optionalCompleted
               /\ status.optionalCompleted <= status.optionalTotal
               /\ Len(status.completedColors)
                      = status.mandatoryCompleted + status.optionalCompleted

\* A day on which the mandatory and the optional habit are both completed.
C25_Witness ==
    /\ call.op = "getDayStatusMap"
    /\ \E date \in DOMAIN call.ret :
           /\ call.ret[date].mandatoryTotal = 1
           /\ call.ret[date].mandatoryCompleted = 1
           /\ call.ret[date].optionalTotal = 1
           /\ call.ret[date].optionalCompleted = 1
           /\ Len(call.ret[date].completedColors) = 2

\* C26: the ids toggled being those of habits on display, after any
\* interleaving of createHabit, deleteHabit, toggleHabitFilter and
\* clearHabitFilters every selected id is the id of a stored habit, and the
\* map shown right after a delete is computed with the selection without
\* the deleted id.
C26_SelectionNamesStoredHabits ==
    [][/\ ui'.mounted =>
            \A i \in DOMAIN ui'.selectedHabitIds :
                \E j \in DOMAIN stateOf(stored').habits :
                    stateOf(stored').habits[j].id = ui'.selectedHabitIds[i]
       /\ (call'.op = "deleteHabit" /\ call'.ret) =>
            /\ ~includes(ui'.selectedHabitIds, call'.id)
            /\ SelectedSet(ui'.selectedHabitIds)
                   = SelectedSet(ui.selectedHabitIds) \ {call'.id}
            /\ ui'.dayStatusMap
                   = statusMapOn(stored', ui'.currentYear, ui'.habits,
                                 without(ui.selectedHabitIds, call'.id))]_vars

\* A selected habit was deleted while the other one stays selected.
C26_Witness ==
    /\ ui.mounted
    /\ call.op = "deleteHabit"
    /\ call.ret
    /\ ~Threw(call)
    /\ call.selected
    /\ ui.selectedHabitIds # <<>>
    /\ DOMAIN ui.dayStatusMap # {}

(***************************************************************************)
(* Frame of the completion mutators.                                       *)
(***************************************************************************)
\* C27: toggleCompletion(h, d) and setCompletion(h, d, c) change at most
\* the log entry of (h, d): no entry is removed, the habits, the settings
\* and every entry of another (habitId, date) pair are as before the call,
\* whether or not h is the id of a stored habit and whether or not d is a
\* future date.
C27_CompletionFrame ==
    [][call'.op \in {"toggleCompletion", "setCompletion"} =>
          /\ getHabits' = getHabits
          /\ getSettings' = getSettings
          /\ Len(getLogs') >= Len(getLogs)
          /\ \A i \in DOMAIN getLogs :
                 /\ getLogs'[i].habitId = getLogs[i].habitId
                 /\ getLogs'[i].date = getLogs[i].date
                 /\ (getLogs[i].habitId # call'.habitId \/ getLogs[i].date # call'.date)
                        => getLogs'[i] = getLogs[i]
          /\ \A j \in DOMAIN getLogs' :
                 j \notin DOMAIN getLogs =>
                     /\ getLogs'[j].habitId = call'.habitId
                     /\ getLogs'[j].date = call'.date]_vars

(***************************************************************************)
(* Properties of the delete confirmation of HabitMenu.                     *)
(***************************************************************************)
\* C28: deleteHabit(id) is called only by a click on the delete button of
\* id made while deletingId is id; a click on a habit that is not awaiting
\* confirmation (a first click, or one after the confirmation was cancelled
\* or moved to another habit) calls nothing and leaves the storage as it
\* is, and nothing but a confirming click changes the stored habits.
C28_TwoStepDelete ==
    [][/\ call'.calls # <<>> =>
            /\ call'.op = "handleDelete"
            /\ ui.deletingId = <<call'.id>>
            /\ call'.calls = <<[fn |-> "deleteHabit", id |-> call'.id]>>
       /\ (call'.op = "handleDelete" /\ ui.deletingId # <<call'.id>>) =>
            /\ call'.calls = <<>>
            /\ stored' = stored
            /\ ui'.deletingId = <<call'.id>>
       /\ getHabits' # getHabits => call'.calls # <<>>]_vars

\* Habit a was awaiting confirmation, the click went to b: a is still
\* stored and b awaits confirmation.
C28_Witness ==
    /\ call.op = "handleDelete"
    /\ call.id = "b"
    /\ call.calls = <<>>
    /\ ui.deletingId = <<"b">>
    /\ Len(ui.timers) = 2
    /\ ui.timers[1].startedFor = "a"
    /\ HabitIds(getHabits) = {"a", "b"}

\* The pending confirmation was started by the click that started the
\* newest timer, the last of ui.timers; the timer that fires is the first.
FiringTimerIsOwn == Len(ui.timers) = 1

\* C29: a timer callback clears only the confirmation whose click started
\* that timer, never one that was started later for another habit or again
\* for the same habit, so a confirmation a timer clears has been pending
\* for the whole delay.
C29_TimerCancelsOwnConfirmation ==
    [][(call'.op = "timerCallback" /\ ui.deletingId # <<>>) =>
           /\ FiringTimerIsOwn
           /\ ui.deletingId = <<call'.startedFor>>]_vars

(***************************************************************************)
(* Properties of usePWAInstall.                                            *)
(***************************************************************************)
\* C30: after any sequence of beforeinstallprompt events, appinstalled
\* events and promptInstall calls, accepted or dismissed, whenever
\* canInstall is true (installState is 'prompt-available') a deferred
\* prompt event is stored, so that promptInstall shows the browser prompt.
C30_CanInstallHasPrompt ==
    ui.installState = "prompt-available" => ui.deferredPrompt # <<>>

====
